---------------------------- MODULE Spec2Model ----------------------------
(***************************************************************************)
(* Model of www/js/latlong.js: the LatLon spherical / rhumb-line geodesy   *)
(* functions and the Geo degrees-minutes-seconds text codec.               *)
(*                                                                         *)
(* Text is a sequence of one-character strings; the glyphs of the DMS      *)
(* notation are the tokens "deg" (U+00B0), "min" (U+2032), "sec" (U+2033)  *)
(* and "dash" (U+2013).  A JavaScript value is a record tagged by t:       *)
(* "num" (sign and magnitude, so that -0 is a value), "nan", "str",        *)
(* "null", "undef" and "obj" (an object whose toString() yields s).        *)
(* Angles of the codec are exact fixed-point numbers, UnitsPerSec units to *)
(* the arcsecond; the arithmetic is that of the reals, not of IEEE 754.    *)
(***************************************************************************)
EXTENDS Integers, Sequences, FiniteSets, TLC

VARIABLES pc, call, ret, globals

vars == <<pc, call, ret, globals>>

-----------------------------------------------------------------------------
(* JavaScript values *)

Num(neg, mag) == [t |-> "num", neg |-> neg, mag |-> mag]
NaN == [t |-> "nan"]
Null == [t |-> "null"]
Undef == [t |-> "undef"]
Str(s) == [t |-> "str", s |-> s]
Obj(s) == [t |-> "obj", s |-> s]

\* the typeof operator
TypeOf(v) ==
  CASE v.t \in {"num", "nan"} -> "number"
    [] v.t = "str" -> "string"
    [] v.t = "undef" -> "undefined"
    [] OTHER -> "object"

\* Results of a call: a returned value or a raised exception
Returned(v) == [kind |-> "return", val |-> v]
\* (at: the statement that raised it)
Raised(e, at) == [kind |-> "throw", err |-> e, at |-> at]

\* Signed value of a number
Val(n) == IF n.neg THEN 0 - n.mag ELSE n.mag

AbsInt(i) == IF i < 0 THEN 0 - i ELSE i

RECURSIVE Pow10(_)
Pow10(k) == IF k = 0 THEN 1 ELSE 10 * Pow10(k - 1)

-----------------------------------------------------------------------------
(* Characters and text *)

Digits == <<"0", "1", "2", "3", "4", "5", "6", "7", "8", "9">>

IsDigit(c) == \E i \in 1..10 : Digits[i] = c

DigitVal(c) == (CHOOSE i \in 1..10 : Digits[i] = c) - 1

RECURSIVE NatText(_)
\* decimal digits of a natural number
NatText(n) == IF n < 10 THEN <<Digits[n + 1]>>
              ELSE Append(NatText(n \div 10), Digits[(n % 10) + 1])

RECURSIVE DigitsVal(_)
\* value of a sequence of digits (0 for the empty sequence)
DigitsVal(s) == IF s = <<>> THEN 0
                ELSE 10 * DigitsVal(SubSeq(s, 1, Len(s) - 1)) + DigitVal(s[Len(s)])

IsSpace(c) == c = " "

RECURSIVE TrimLeft(_)
TrimLeft(s) == IF s # <<>> /\ IsSpace(Head(s)) THEN TrimLeft(Tail(s)) ELSE s

RECURSIVE TrimRight(_)
TrimRight(s) == IF s # <<>> /\ IsSpace(s[Len(s)])
                THEN TrimRight(SubSeq(s, 1, Len(s) - 1)) ELSE s

\* String.prototype.trim
Trim(s) == TrimRight(TrimLeft(s))

\* String(v): the text of a value
ToText(v) ==
  CASE v.t \in {"str", "obj"} -> v.s
    [] v.t = "nan" -> <<"N", "a", "N">>
    [] v.t = "null" -> <<"n", "u", "l", "l">>
    [] v.t = "undef" -> <<"u", "n", "d", "e", "f", "i", "n", "e", "d">>
    [] OTHER -> <<>>

-----------------------------------------------------------------------------
(* Fixed-point angles *)

\* units to the arcsecond: the resolution of the modelled numbers
UnitsPerSec == 100
UnitsPerMin == 60 * UnitsPerSec
UnitsPerDeg == 3600 * UnitsPerSec

\* frac / 10^k of scale units, exact when 10^k divides scale
FracUnits(frac, k, scale) ==
  IF scale % Pow10(k) = 0 THEN frac * (scale \div Pow10(k))
  ELSE (frac * scale) \div Pow10(k)

\* position of the first "." of s, or 0
DotAt(s) == IF \E i \in 1..Len(s) : s[i] = "."
            THEN CHOOSE i \in 1..Len(s) : s[i] = "." /\ \A j \in 1..(i - 1) : s[j] # "."
            ELSE 0

\* whether text is a decimal literal: digits, digits.digits, digits. or .digits
IsDecimalLiteral(s) ==
  LET dot == DotAt(s)
      ip == IF dot = 0 THEN s ELSE SubSeq(s, 1, dot - 1)
      fp == IF dot = 0 THEN <<>> ELSE SubSeq(s, dot + 1, Len(s))
  IN /\ \A i \in 1..Len(ip) : IsDigit(ip[i])
     /\ \A i \in 1..Len(fp) : IsDigit(fp[i])
     /\ Len(ip) + Len(fp) > 0

\* ToNumber of text, as a multiple of 1/scale: the text is measured in
\* degrees (scale UnitsPerDeg), minutes (UnitsPerMin) or seconds (UnitsPerSec).
\* The empty text converts to 0; text that is no decimal literal to NaN.
ToNumber(s, scale) ==
  IF s = <<>> THEN Num(FALSE, 0)
  ELSE IF ~IsDecimalLiteral(s) THEN NaN
  ELSE LET dot == DotAt(s)
           ip == IF dot = 0 THEN s ELSE SubSeq(s, 1, dot - 1)
           fp == IF dot = 0 THEN <<>> ELSE SubSeq(s, dot + 1, Len(s))
       IN Num(FALSE, DigitsVal(ip) * scale + FracUnits(DigitsVal(fp), Len(fp), scale))

\* a + b of two non-negative numbers or NaN
Add(a, b) == IF a.t = "nan" \/ b.t = "nan" THEN NaN ELSE Num(FALSE, a.mag + b.mag)

\* unary minus
Negate(a) == IF a.t = "nan" THEN NaN ELSE Num(~a.neg, a.mag)

-----------------------------------------------------------------------------
(* Geo.parseDMS *)

IsFieldChar(c) == IsDigit(c) \/ c \in {".", ","}

IsCompass(c) == c \in {"N", "S", "E", "W", "n", "s", "e", "w"}

\* replace(/^-/, '')
StripMinus(s) == IF s # <<>> /\ Head(s) = "-" THEN Tail(s) ELSE s

\* replace(/[NSEW]$/i, '')
StripCompass(s) == IF s # <<>> /\ IsCompass(s[Len(s)])
                   THEN SubSeq(s, 1, Len(s) - 1) ELSE s

RECURSIVE SplitFrom(_, _, _, _)
\* split(/[^0-9.,]+/): acc holds the finished fields, cur the field being
\* read, inSep whether the previous character belonged to a separator run
SplitFrom(s, acc, cur, inSep) ==
  IF s = <<>> THEN Append(acc, cur)
  ELSE IF IsFieldChar(Head(s)) THEN SplitFrom(Tail(s), acc, Append(cur, Head(s)), FALSE)
  ELSE IF inSep THEN SplitFrom(Tail(s), acc, cur, TRUE)
  ELSE SplitFrom(Tail(s), Append(acc, cur), <<>>, TRUE)

SplitFields(s) == SplitFrom(s, <<>>, <<>>, FALSE)

\* if (dms[dms.length-1]=='') dms.splice(dms.length-1)
DropTrailingEmpty(dms) ==
  IF dms # <<>> /\ dms[Len(dms)] = <<>> THEN SubSeq(dms, 1, Len(dms) - 1) ELSE dms

\* the sign test without its i flag: /^-|[WS]$/
IsNegativeTextCaseSensitive(s) ==
  s # <<>> /\ (Head(s) = "-" \/ s[Len(s)] \in {"W", "S"})

\* /^-|[WS]$/i
IsNegativeText(s) ==
  s # <<>> /\ (Head(s) = "-" \/ s[Len(s)] \in {"W", "S", "w", "s"})

\* the value the guard of parseDMS inspects: its own local deg, hoisted and
\* not yet assigned when the guard runs
ParseGuardSubject(dmsStr) == Undef

parseDMS(dmsStr) ==
  IF TypeOf(ParseGuardSubject(dmsStr)) = "object" THEN Raised("TypeError", "guard")
  ELSE IF dmsStr.t = "num" THEN Returned(dmsStr)
  ELSE
    LET dms == DropTrailingEmpty(SplitFields(StripCompass(StripMinus(Trim(ToText(dmsStr))))))
        deg == CASE Len(dms) = 3 ->
                      Add(Add(ToNumber(dms[1], UnitsPerDeg), ToNumber(dms[2], UnitsPerMin)),
                          ToNumber(dms[3], UnitsPerSec))
                 [] Len(dms) = 2 ->
                      Add(ToNumber(dms[1], UnitsPerDeg), ToNumber(dms[2], UnitsPerMin))
                 [] Len(dms) = 1 -> ToNumber(dms[1], UnitsPerDeg)
                 [] OTHER -> NaN
    IN IF dms = <<>> \/ dms = << <<>> >> THEN Returned(NaN)
       ELSE IF Len(dms) > 3 THEN Returned(NaN)
       ELSE IF dmsStr.t # "str" THEN Raised("TypeError", "dmsStr.trim")
       ELSE IF IsNegativeText(Trim(dmsStr.s)) THEN Returned(Negate(deg))
       ELSE Returned(deg)

-----------------------------------------------------------------------------
(* Number.prototype.toFixed and the decimal texts it yields *)

\* A decimal: the integer n of 10^-dp units, as toFixed(dp) prints it
Decimal(n, dp) == [n |-> n, dp |-> dp]

\* x.toFixed(dp) of the non-negative x = mag/scale: the n for which n/10^dp
\* is nearest to x, the larger n of two
ToFixed(mag, scale, dp) ==
  LET q == mag \div scale
      r == mag % scale
      f == IF scale % Pow10(dp) = 0
           THEN (2 * r + (scale \div Pow10(dp))) \div (2 * (scale \div Pow10(dp)))
           ELSE (2 * r * Pow10(dp) + scale) \div (2 * scale)
  IN Decimal(q * Pow10(dp) + f, dp)

RECURSIVE ZeroPad(_, _)
\* digits s padded with zeros on the left to width w
ZeroPad(s, w) == IF Len(s) >= w THEN s ELSE ZeroPad(<<"0">> \o s, w)

\* the text of a decimal: integer digits, then '.' and dp digits if dp > 0
DecimalText(x) ==
  NatText(x.n \div Pow10(x.dp))
  \o (IF x.dp = 0 THEN <<>> ELSE <<".">> \o ZeroPad(NatText(x.n % Pow10(x.dp)), x.dp))

\* if (v < limit) txt = '0' + txt, for txt the text of the decimal v
PadBelow(txt, v, limit) == IF v.n < limit * Pow10(v.dp) THEN <<"0">> \o txt ELSE txt

\* the two padding statements of toDMS for a degree value
PadDegrees(v) == PadBelow(PadBelow(DecimalText(v), v, 100), v, 10)

\* a minute or second value without its leading zero
Unpadded(v) == DecimalText(v)

\* the padding statement of toDMS for a minute or second value
PadSixtieth(v) == PadBelow(DecimalText(v), v, 10)

-----------------------------------------------------------------------------
(* Geo.toDMS, Geo.toLat, Geo.toLon, Geo.toBrng *)

\* Number(v), in degrees; an object converts through its text
NumberOf(v) ==
  CASE v.t = "num" -> v
    [] v.t \in {"str", "obj"} -> ToNumber(Trim(v.s), UnitsPerDeg)
    [] v.t = "null" -> Num(FALSE, 0)
    [] OTHER -> NaN

\* isNaN(v)
IsNaN(v) == NumberOf(v).t = "nan"

\* format tags, as texts
TagD == <<"d">>
TagDM == <<"d", "m">>
TagDMS == <<"d", "m", "s">>

\* the default decimal places of a format tag, and the tag used with them
DefaultDp(format) ==
  CASE format = TagD -> [format |-> TagD, dp |-> 4]
    [] format = TagDM -> [format |-> TagDM, dp |-> 2]
    [] format = TagDMS -> [format |-> TagDMS, dp |-> 0]
    [] OTHER -> [format |-> TagDMS, dp |-> 0]

\* case 'd' of toDMS
RenderD(mag, dp) == PadDegrees(ToFixed(mag, UnitsPerDeg, dp)) \o <<"deg">>

\* case 'dm' of toDMS
RenderDM(mag, dp) ==
  LET min == ToFixed(mag, UnitsPerMin, dp)
      d == Decimal(min.n \div (60 * Pow10(dp)), 0)
      m == Decimal(min.n % (60 * Pow10(dp)), dp)
  IN PadDegrees(d) \o <<"deg">> \o PadSixtieth(m) \o <<"min">>

\* case 'dms' with the minutes not reduced modulo 60
RenderDMSUnwrapped(mag, dp) ==
  LET sec == ToFixed(mag, UnitsPerSec, dp)
      d == Decimal(sec.n \div (3600 * Pow10(dp)), 0)
      m == Decimal(sec.n \div (60 * Pow10(dp)), 0)
      s == Decimal(sec.n % (60 * Pow10(dp)), dp)
  IN PadDegrees(d) \o <<"deg">> \o PadSixtieth(m) \o <<"min">> \o PadSixtieth(s) \o <<"sec">>

\* case 'dms' of toDMS
RenderDMS(mag, dp) ==
  LET sec == ToFixed(mag, UnitsPerSec, dp)
      d == Decimal(sec.n \div (3600 * Pow10(dp)), 0)
      m == Decimal((sec.n \div (60 * Pow10(dp))) % 60, 0)
      s == Decimal(sec.n % (60 * Pow10(dp)), dp)
  IN PadDegrees(d) \o <<"deg">> \o PadSixtieth(m) \o <<"min">> \o PadSixtieth(s) \o <<"sec">>

\* Geo.toDMS(deg, format, dp) called with the globals g: the result and the
\* globals it leaves.  format is a text and dp a count (a number whose mag
\* is the count); either is Undef when not supplied.  The
\* rendered text is assigned to the undeclared (hence global) variable dms,
\* which is what the function returns.
toDMS(deg, format, dp, g) ==
  IF TypeOf(deg) = "object" THEN [ret |-> Raised("TypeError", "guard"), globals |-> g]
  ELSE IF IsNaN(deg) THEN [ret |-> Returned(Null), globals |-> g]
  ELSE
    LET fmt0 == IF format = Undef THEN TagDMS ELSE format.s
        fmt == IF dp = Undef THEN DefaultDp(fmt0).format ELSE fmt0
        places == IF dp = Undef THEN DefaultDp(fmt0).dp ELSE dp.mag
        mag == NumberOf(deg).mag
    IN IF fmt \in {TagD, TagDM, TagDMS}
       THEN LET text == CASE fmt = TagD -> RenderD(mag, places)
                          [] fmt = TagDM -> RenderDM(mag, places)
                          [] OTHER -> RenderDMS(mag, places)
            IN [ret |-> Returned(Str(text)), globals |-> [g EXCEPT !.dms = Str(text)]]
       ELSE IF g.dms = Undef
       THEN [ret |-> Raised("ReferenceError", "return dms"), globals |-> g]
       ELSE [ret |-> Returned(g.dms), globals |-> g]

\* deg < 0
IsNegative(deg) == LET n == NumberOf(deg) IN n.t = "num" /\ n.neg /\ n.mag > 0

\* the rest of toLat / toLon / toBrng after the call r of toDMS
AfterDMS(r, finish(_)) ==
  IF r.ret.kind = "throw" THEN r
  ELSE IF r.ret.val = Null THEN [r EXCEPT !.ret = Returned(Str(<<"dash">>))]
  ELSE [r EXCEPT !.ret = Returned(Str(finish(r.ret.val.s)))]

\* toLat handing on the null of toDMS instead of the marker
toLatUnmarked(deg, format, dp, g) ==
  LET finish(lat) == Tail(lat) \o (IF IsNegative(deg) THEN <<"S">> ELSE <<"N">>)
      r == toDMS(deg, format, dp, g)
  IN IF r.ret.kind = "return" /\ r.ret.val = Null THEN r ELSE AfterDMS(r, finish)

toLat(deg, format, dp, g) ==
  LET finish(lat) == Tail(lat) \o (IF IsNegative(deg) THEN <<"S">> ELSE <<"N">>)
  IN AfterDMS(toDMS(deg, format, dp, g), finish)

toLon(deg, format, dp, g) ==
  LET finish(lon) == lon \o (IF IsNegative(deg) THEN <<"W">> ELSE <<"E">>)
  IN AfterDMS(toDMS(deg, format, dp, g), finish)

\* the remainder a % b of JavaScript: it has the sign of a
JsRem(a, b) == IF a < 0 THEN 0 - ((0 - a) % b) ELSE a % b

\* (Number(deg)+360) % 360
NormaliseBearing(deg) ==
  LET n == NumberOf(deg)
  IN IF n.t = "nan" THEN NaN
     ELSE LET r == JsRem(Val(n) + 360 * UnitsPerDeg, 360 * UnitsPerDeg)
          IN Num(r < 0, AbsInt(r))

\* position of the first occurrence of "360" in s, or 0
Find360(s) ==
  LET hit(i) == s[i] = "3" /\ s[i + 1] = "6" /\ s[i + 2] = "0"
  IN IF \E i \in 1..(Len(s) - 2) : hit(i)
     THEN CHOOSE i \in 1..(Len(s) - 2) : hit(i) /\ \A j \in 1..(i - 1) : ~hit(j)
     ELSE 0

\* brng.replace('360', '0')
Replace360(s) ==
  LET i == Find360(s)
  IN IF i = 0 THEN s ELSE SubSeq(s, 1, i - 1) \o <<"0">> \o SubSeq(s, i + 3, Len(s))

toBrng(deg, format, dp, g) ==
  AfterDMS(toDMS(NormaliseBearing(deg), format, dp, g), Replace360)

-----------------------------------------------------------------------------
(* Number.prototype.toPrecision and Number.prototype.toPrecisionFixed *)

\* A finite number m * 10^e in decimal floating point, negative if neg
Float(neg, m, e) == [neg |-> neg, m |-> m, e |-> e]

RECURSIVE Zeros(_)
Zeros(k) == IF k <= 0 THEN <<>> ELSE <<"0">> \o Zeros(k - 1)

\* x.toPrecision(p): p significant digits, in exponential notation when the
\* decimal exponent e of the rounded value has e < -6 or e >= p
ToPrecision(x, p) ==
  IF x.m = 0 THEN <<"0">> \o (IF p = 1 THEN <<>> ELSE <<".">> \o Zeros(p - 1))
  ELSE
    LET k == Len(NatText(x.m))
        n0 == IF k > p THEN (2 * x.m + Pow10(k - p)) \div (2 * Pow10(k - p))
              ELSE x.m * Pow10(p - k)
        carry == n0 = Pow10(p)
        n == IF carry THEN Pow10(p - 1) ELSE n0
        e == IF carry THEN x.e + k ELSE x.e + k - 1
        ds == NatText(n)
        body == IF e < 0 - 6 \/ e >= p
                THEN <<ds[1]>> \o (IF p = 1 THEN <<>> ELSE <<".">> \o SubSeq(ds, 2, p))
                     \o <<"e", IF e < 0 THEN "-" ELSE "+">> \o NatText(AbsInt(e))
                ELSE IF e = p - 1 THEN ds
                ELSE IF e >= 0 THEN SubSeq(ds, 1, e + 1) \o <<".">> \o SubSeq(ds, e + 2, p)
                ELSE <<"0", ".">> \o Zeros(0 - (e + 1)) \o ds
    IN (IF x.neg THEN <<"-">> ELSE <<>>) \o body

\* position of the last "e" followed by the sign c with text on both sides, or 0
ExponentAt(n, c) ==
  LET hit(i) == n[i] = "e" /\ n[i + 1] = c
  IN IF \E i \in 2..(Len(n) - 2) : hit(i)
     THEN CHOOSE i \in 2..(Len(n) - 2) : hit(i) /\ \A j \in (i + 1)..(Len(n) - 2) : ~hit(j)
     ELSE 0

\* sig.replace(/\./, '')
RemoveDot(s) ==
  LET i == DotAt(s) IN IF i = 0 THEN s ELSE SubSeq(s, 1, i - 1) \o SubSeq(s, i + 1, Len(s))

\* the count exp of an exponent text (the loops compare it as a number)
ExponentOf(s) == IF \A i \in 1..Len(s) : IsDigit(s[i]) THEN DigitsVal(s) ELSE 0

\* n.replace(/(.+)e\+(.+)/, ...): the significand without its point and
\* exp - l zeros appended, l = sig.length - 1 being assigned to the
\* undeclared (hence global) variable l
ReplacePositiveExponent(n, g) ==
  LET i == ExponentAt(n, "+")
      sig == RemoveDot(SubSeq(n, 1, i - 1))
      l == Len(sig) - 1
  IN IF i = 0 THEN [text |-> n, globals |-> g]
     ELSE [text |-> sig \o Zeros(ExponentOf(SubSeq(n, i + 2, Len(n))) - l),
           globals |-> [g EXCEPT !.l = Num(FALSE, l)]]

\* the replacement of a negative exponent left undone
KeepNegativeExponent(n) == n

\* n.replace(/(.+)e-(.+)/, ...): '0.', exp - 1 zeros and the significand
\* without its point
ReplaceNegativeExponent(n) ==
  LET i == ExponentAt(n, "-")
      sig == RemoveDot(SubSeq(n, 1, i - 1))
  IN IF i = 0 THEN n
     ELSE <<"0", ".">> \o Zeros(ExponentOf(SubSeq(n, i + 2, Len(n))) - 1) \o sig

\* x.toPrecisionFixed(precision) called with the globals g
toPrecisionFixed(x, precision, g) ==
  LET r == ReplacePositiveExponent(ToPrecision(x, precision), g)
  IN [ret |-> Returned(Str(ReplaceNegativeExponent(r.text))), globals |-> r.globals]

-----------------------------------------------------------------------------
(* Trigonometry in whole degrees.  The geodesy functions are evaluated on  *)
(* points, bearings and angular distances for which every sine, cosine    *)
(* and arc tangent they take is exact: multiples of 90 degrees for the    *)
(* great-circle functions; latitudes of 0 and +-60 degrees for the        *)
(* rhumb-line functions.  toRadians and toDegrees are linear, so angles   *)
(* stay in degrees: pi is 180.                                            *)

Sin(a) == CASE a % 360 = 90 -> 1 [] a % 360 = 270 -> 0 - 1 [] OTHER -> 0

Cos(a) == CASE a % 360 = 0 -> 1 [] a % 360 = 180 -> 0 - 1 [] OTHER -> 0

Sign(i) == IF i > 0 THEN 1 ELSE IF i < 0 THEN 0 - 1 ELSE 0

\* Math.atan2(y, x), for y = 0, x = 0 or |y| = |x|
Atan2(y, x) ==
  IF y = 0 THEN (IF x < 0 THEN 180 ELSE 0)
  ELSE Sign(y) * (IF x = 0 THEN 90 ELSE IF x > 0 THEN 45 ELSE 135)

\* Math.atan2(y, Math.sqrt(xx)), for y = 0, xx = 0 or y*y = xx
Atan2Sqrt(y, xx) == IF y = 0 THEN 0 ELSE Sign(y) * (IF xx = 0 THEN 90 ELSE 45)

\* Math.asin(s) for s in {-1, 0, 1}
Asin(s) == 90 * s

\* 1 / Math.cos(a) for a latitude of 0 or +-60 degrees
Secant(a) == IF a = 0 THEN 1 ELSE 2

\* twice Math.sin(a/2)^2, for a a multiple of 90
TwiceSinSqHalf(a) == CASE a % 360 = 0 -> 0 [] a % 360 = 180 -> 2 [] OTHER -> 1

-----------------------------------------------------------------------------
(* LatLon *)

\* new LatLon(lat, lon, radius)
LatLon(lat, lon, radius) == [lat |-> lat, lon |-> lon, radius |-> radius]

\* the default radius, 6371 km
EarthRadius == Float(FALSE, 6371, 0)

\* (lon + 3*Math.PI) % (2*Math.PI) - Math.PI
NormaliseLongitude(lon) == JsRem(lon + 540, 360) - 180

\* the reduction of a bearing without adding the turn: theta % 360
Turn360NotAdded(theta) == JsRem(theta, 360)

\* (theta.toDegrees() + 360) % 360
Turn360(theta) == JsRem(theta + 360, 360)

\* the reversal of a bearing without the remainder
ReverseUnreduced(theta) == theta + 180

\* (theta.toDegrees() + 180) % 360
Reverse360(theta) == JsRem(theta + 180, 360)

\* this.bearingTo(point)
bearingTo(this, point) ==
  LET dl == point.lon - this.lon
      y == Sin(dl) * Cos(point.lat)
      x == Cos(this.lat) * Sin(point.lat) - Sin(this.lat) * Cos(point.lat) * Cos(dl)
  IN Turn360(Atan2(y, x))

\* this.finalBearingTo(point)
finalBearingTo(this, point) ==
  LET dl == this.lon - point.lon
      y == Sin(dl) * Cos(this.lat)
      x == Cos(point.lat) * Sin(this.lat) - Sin(point.lat) * Cos(this.lat) * Cos(dl)
  IN Reverse360(Atan2(y, x))

\* this.midpointTo(point)
midpointTo(this, point) ==
  LET dl == point.lon - this.lon
      Bx == Cos(point.lat) * Cos(dl)
      By == Cos(point.lat) * Sin(dl)
      lat3 == Atan2Sqrt(Sin(this.lat) + Sin(point.lat),
                        (Cos(this.lat) + Bx) * (Cos(this.lat) + Bx) + By * By)
      lon3 == this.lon + Atan2(By, Cos(this.lat) + Bx)
  IN LatLon(lat3, NormaliseLongitude(lon3), EarthRadius)

\* this.destinationPoint(brng, dist), delta = dist / this.radius in degrees
destinationPoint(this, brng, delta) ==
  LET sinLat2 == Sin(this.lat) * Cos(delta) + Cos(this.lat) * Sin(delta) * Cos(brng)
      lon2 == this.lon + Atan2(Sin(brng) * Sin(delta) * Cos(this.lat),
                               Cos(delta) - Sin(this.lat) * sinLat2)
  IN LatLon(Asin(sinLat2), NormaliseLongitude(lon2), EarthRadius)

\* Math.acos(c) for c in {-1, 0, 1}
Acos(c) == CASE c = 1 -> 0 [] c = 0 -> 90 [] OTHER -> 180

\* the angular distance delta12 between p1 and p2:
\* 2*asin(sqrt(a)), twice a being 0, 1 or 2
Separation(p1, p2) ==
  90 * (TwiceSinSqHalf(p2.lat - p1.lat)
        + Cos(p1.lat) * Cos(p2.lat) * TwiceSinSqHalf(p2.lon - p1.lon))

\* theta12 and theta21, the initial bearing from p1 to p2 and the bearing
\* at p2 of the path from p1, for points that are neither antipodal nor
\* polar (sin(delta12)*cos(lat) is not 0).  A theta1 that is not a number
\* is replaced by 0.
InitialBearings(p1, p2) ==
  LET d12 == Separation(p1, p2)
      den1 == Sin(d12) * Cos(p1.lat)
      th1 == IF den1 = 0 THEN 0
             ELSE Acos((Sin(p2.lat) - Sin(p1.lat) * Cos(d12)) \div den1)
      th2 == Acos((Sin(p1.lat) - Sin(p2.lat) * Cos(d12)) \div (Sin(d12) * Cos(p2.lat)))
  IN IF Sin(p2.lon - p1.lon) > 0
     THEN [th12 |-> th1, th21 |-> 360 - th2]
     ELSE [th12 |-> 360 - th1, th21 |-> th2]

\* (x + Math.PI) % (2*Math.PI) - Math.PI
CornerAngle(x) == JsRem(x + 180, 360) - 180

\* alpha1, the angle 2-1-3, and alpha2, the angle 1-2-3
CornerAngles(p1, brng1, p2, brng2) ==
  LET th == InitialBearings(p1, p2)
  IN [a1 |-> CornerAngle(brng1 - th.th12), a2 |-> CornerAngle(th.th21 - brng2)]

\* the paths are one path: Math.sin(a1)==0 && Math.sin(a2)==0
InfiniteIntersections(a1, a2) == Sin(a1) = 0 /\ Sin(a2) = 0

\* the test of the angles themselves rather than of their sines
OppositeAngles(a1, a2) == a1 * a2 < 0

\* the paths part: Math.sin(a1)*Math.sin(a2) < 0
AmbiguousIntersection(a1, a2) == Sin(a1) * Sin(a2) < 0

\* the point where the paths from p1 on brng1 and from p2 on brng2 meet
IntersectionPoint(p1, brng1, p2, a1, a2) ==
  LET d12 == Separation(p1, p2)
      a3 == Acos(0 - Cos(a1) * Cos(a2) + Sin(a1) * Sin(a2) * Cos(d12))
      d13 == Atan2(Sin(d12) * Sin(a1) * Sin(a2), Cos(a2) + Cos(a1) * Cos(a3))
      sinLat3 == Sin(p1.lat) * Cos(d13) + Cos(p1.lat) * Sin(d13) * Cos(brng1)
      dl13 == Atan2(Sin(brng1) * Sin(d13) * Cos(p1.lat), Cos(d13) - Sin(p1.lat) * sinLat3)
  IN LatLon(Asin(sinLat3), NormaliseLongitude(p1.lon + dl13), EarthRadius)

\* LatLon.intersection(p1, brng1, p2, brng2) called with the globals g: the
\* result and the globals it leaves.  theta12 and theta21 are assigned
\* without a declaration (in degrees here).
intersection(p1, brng1, p2, brng2, g) ==
  IF Separation(p1, p2) = 0 THEN [ret |-> Returned(Null), globals |-> g]
  ELSE LET th == InitialBearings(p1, p2)
           a == CornerAngles(p1, brng1, p2, brng2)
           g2 == [g EXCEPT !.th12 = Num(FALSE, th.th12), !.th21 = Num(FALSE, th.th21)]
       IN IF InfiniteIntersections(a.a1, a.a2) THEN [ret |-> Returned(Null), globals |-> g2]
          ELSE IF AmbiguousIntersection(a.a1, a.a2)
          THEN [ret |-> Returned(Null), globals |-> g2]
          ELSE [ret |-> Returned(IntersectionPoint(p1, brng1, p2, a.a1, a.a2)),
                globals |-> g2]

\* if (Math.abs(dLon) > Math.PI) dLon = dLon>0 ? -(2*Math.PI-dLon) : (2*Math.PI+dLon)
ShorterWay(dl) == IF AbsInt(dl) > 180 THEN (IF dl > 0 THEN 0 - (360 - dl) ELSE 360 + dl) ELSE dl

\* this.rhumbBearingTo(point), for points of one latitude or one longitude:
\* the projected latitude difference has the sign of point.lat - this.lat
rhumbBearingTo(this, point) ==
  LET dl == ShorterWay(point.lon - this.lon)
      dpsi == Sign(point.lat - this.lat)
  IN Turn360(Atan2(dl, dpsi))

\* this.rhumbDestinationPoint(brng, dist), delta = dist / this.radius in
\* degrees and brng a multiple of 90: along a meridian the stretch factor q
\* is finite and not zero and the longitude is kept; along a parallel
\* q = cos(lat)
rhumbDestinationPoint(this, brng, delta) ==
  LET dlat == delta * Cos(brng)
      lat2a == this.lat + dlat
      lat2 == IF AbsInt(lat2a) > 90 THEN (IF lat2a > 0 THEN 180 - lat2a ELSE 0 - 180 - lat2a)
              ELSE lat2a
      dl == IF Sin(brng) = 0 THEN 0 ELSE delta * Sin(brng) * Secant(this.lat)
  IN LatLon(lat2, NormaliseLongitude(this.lon + dl), EarthRadius)

\* this.rhumbMidpointTo(point), for points of one latitude (the
\* interpolation is 0/0 and the mean of the longitudes is taken) or of one
\* longitude (the interpolation gives that longitude)
rhumbMidpointTo(this, point) ==
  LET lon1 == IF AbsInt(point.lon - this.lon) > 180 THEN this.lon + 360 ELSE this.lon
      lon3 == IF this.lat = point.lat THEN (lon1 + point.lon) \div 2 ELSE lon1
  IN LatLon((this.lat + point.lat) \div 2, NormaliseLongitude(lon3), EarthRadius)

\* pi/180 in units of 10^-8 (toRadians)
RadiansPerDegree == 1745329

\* radius * angle.toRadians() for an angle of at most 180 degrees, the
\* mantissa cut to ten-thousandths of the radius unit
ArcLength(radius, angle) ==
  LET rad == angle * RadiansPerDegree
  IN Float(FALSE, radius.m * (rad \div 10000) + (radius.m * (rad % 10000)) \div 10000,
           radius.e - 4)

\* this.distanceTo(point, precision) called with the globals g; precision is
\* Undef when not supplied.  Twice the haversine a is 0, 1 or 2 and the
\* angular distance 2*atan2(sqrt(a), sqrt(1-a)) is 0, 90 or 180 degrees.
distanceTo(this, point, precision, g) ==
  LET a2 == TwiceSinSqHalf(point.lat - this.lat)
            + Cos(this.lat) * Cos(point.lat) * TwiceSinSqHalf(point.lon - this.lon)
      c == 2 * Atan2Sqrt(a2, 2 - a2)
  IN toPrecisionFixed(ArcLength(this.radius, c),
                      IF precision = Undef THEN 4 ELSE precision.mag, g)

\* this.rhumbDistanceTo(point) called with the globals g, for points of one
\* latitude (q = cos(lat)) or of one longitude (dLon = 0)
rhumbDistanceTo(this, point, g) ==
  LET dlat == point.lat - this.lat
      dl == ShorterWay(AbsInt(point.lon - this.lon))
      delta == IF dlat = 0 THEN AbsInt(dl) \div Secant(this.lat) ELSE AbsInt(dlat)
  IN toPrecisionFixed(ArcLength(this.radius, delta), 4, g)

-----------------------------------------------------------------------------
(* Calls: pc is "call" before the call named by call has run and "done"  *)
(* after it; ret is what it returned or raised; globals holds the        *)
(* undeclared variables the functions assign.                            *)

\* the undeclared variables the functions assign, none of them assigned yet
NoGlobals == [dms |-> Undef, l |-> Undef, th12 |-> Undef, th21 |-> Undef]

\* the call returns (or raises) r.ret and leaves the globals r.globals
Finish(r) ==
  /\ ret' = r.ret
  /\ globals' = r.globals
  /\ pc' = "done"
  /\ UNCHANGED call

\* the call returns v and assigns no global
Return(v) ==
  /\ ret' = Returned(v)
  /\ pc' = "done"
  /\ UNCHANGED <<call, globals>>

-----------------------------------------------------------------------------
(* Inputs and calls of Geo.parseDMS *)

\* longest list of numeric fields of a generated text
MaxFields == 4

\* a field of a text: its characters, whether it is a decimal literal and,
\* if so, its value in hundredths
Field(txt, ok, val) == [txt |-> txt, ok |-> ok, val |-> val]

FirstFields ==
  { Field(<<"0">>, TRUE, 0), Field(<<"1", "2">>, TRUE, 1200),
    Field(<<"0", "5", ".", "3", "1">>, TRUE, 531), Field(<<"1", ",", "5">>, FALSE, 0) }

NextFields ==
  { Field(<<"3", "0">>, TRUE, 3000), Field(<<".", "5">>, TRUE, 50),
    Field(<<"1", ".", "2", ".", "3">>, FALSE, 0) }

FieldLists ==
  UNION { { <<f>> \o r : f \in FirstFields, r \in [1..n -> NextFields] } : n \in 0..(MaxFields - 1) }

Prefixes == { <<>>, <<"-">>, <<"+">>, <<"N">> }

\* separator runs: the run between fields 1 and 2, and the run between later fields
Separators == { << <<" ">>, <<" ">> >>, << <<"deg", " ">>, <<"min", " ">> >>,
                << <<",">>, <<",">> >> }

Trailers == { <<>>, <<"sec", " ">> }

Suffixes == { <<>>, <<"N">>, <<"S">>, <<"E">>, <<"W">>, <<"n">>, <<"s">>, <<"e">>, <<"w">> }

Shapes ==
  [prefix : Prefixes, fields : FieldLists, sep : Separators, trail : Trailers,
   suffix : Suffixes]

RECURSIVE JoinFields(_, _, _)
\* the fields from the i-th on, each preceded by its separator run
JoinFields(fields, sep, i) ==
  IF i > Len(fields) THEN <<>>
  ELSE (IF i = 1 THEN <<>> ELSE IF i = 2 THEN sep[1] ELSE sep[2])
       \o fields[i].txt \o JoinFields(fields, sep, i + 1)

ShapeText(g) == g.prefix \o JoinFields(g.fields, g.sep, 1) \o g.trail \o g.suffix

\* values that are no DMS text: an object, the array [12], NaN, null,
\* undefined, a number, and texts without a field
OtherArguments ==
  { Obj(<<"[", "o", "b", "j", "e", "c", "t", " ", "O", "b", "j", "e", "c", "t", "]">>),
    Obj(<<"1", "2">>), NaN, Null, Undef, Num(TRUE, 5 * UnitsPerDeg),
    Str(<<>>), Str(<<" ">>), Str(<<"-">>), Str(<<"S">>), Str(<<" ", "-", "1", "2", " ">>) }

ParseCalls ==
  { [op |-> "parseDMS", arg |-> Str(ShapeText(g)), shape |-> g, origin |-> Null] : g \in Shapes }
  \cup { [op |-> "parseDMS", arg |-> v, shape |-> Null, origin |-> Null] : v \in OtherArguments }

\* a call of Geo.parseDMS
ParseDMS ==
  /\ pc = "call"
  /\ call.op = "parseDMS"
  /\ ret' = parseDMS(call.arg)
  /\ pc' = "done"
  /\ UNCHANGED <<call, globals>>

InitParse ==
  /\ pc = "call"
  /\ call \in ParseCalls
  /\ ret = Null
  /\ globals = NoGlobals

NextParse == ParseDMS

SpecParse == InitParse /\ [][NextParse]_vars

-----------------------------------------------------------------------------
(* Claims about Geo.parseDMS *)

\* value of a field measured in units of 1/scale
FieldUnits(f, scale) == f.val * (scale \div 100)

\* d + m/60 + s/3600 of a list of one to three fields
ShapeMagnitude(g) ==
  FieldUnits(g.fields[1], UnitsPerDeg)
  + (IF Len(g.fields) >= 2 THEN FieldUnits(g.fields[2], UnitsPerMin) ELSE 0)
  + (IF Len(g.fields) >= 3 THEN FieldUnits(g.fields[3], UnitsPerSec) ELSE 0)

ShapeNegative(g) == g.prefix = <<"-">> \/ g.suffix \in { <<"S">>, <<"W">>, <<"s">>, <<"w">> }

\* an optional '-', one to three decimal fields, an optional compass letter
WellFormedShape(g) ==
  /\ g.prefix \in { <<>>, <<"-">> }
  /\ Len(g.fields) <= 3
  /\ \A i \in 1..Len(g.fields) : g.fields[i].ok

\* some separator run between two fields of the text holds a comma
CommaSeparated(g) ==
  Len(g.fields) >= 2 /\ \E i \in 1..2 : \E j \in 1..Len(g.sep[i]) : g.sep[i][j] = ","

ParsedShape == pc = "done" /\ call.op = "parseDMS" /\ call.shape # Null

\* C1 as stated: every well-formed text, whatever non-digit characters
\* separate its fields, parses to sign * (d + m/60 + s/3600), negative
\* exactly when it starts with '-' or ends with S or W.
C1_ParseAnySeparator ==
  (ParsedShape /\ WellFormedShape(call.shape))
    => ret = Returned(Num(ShapeNegative(call.shape), ShapeMagnitude(call.shape)))

\* C1 (amended): every well-formed text whose separator runs hold no comma
\* parses to sign * (d + m/60 + s/3600), negative exactly when it starts
\* with '-' or ends with S or W (any case).
C1_ParseWellFormed ==
  (ParsedShape /\ WellFormedShape(call.shape) /\ ~CommaSeparated(call.shape))
    => ret = Returned(Num(ShapeNegative(call.shape), ShapeMagnitude(call.shape)))

\* a d/m/s text ending in a lower-case w has been parsed to a negative angle
C1_Witness ==
  /\ ParsedShape /\ WellFormedShape(call.shape) /\ ~CommaSeparated(call.shape)
  /\ Len(call.shape.fields) = 3
  /\ call.shape.suffix = <<"w">>
  /\ ret.kind = "return" /\ ret.val.t = "num" /\ ret.val.neg /\ ret.val.mag > UnitsPerDeg

\* more than three fields, a field that is no number, or an empty first
\* field left by a leading '+' or compass letter
MalformedShape(g) ==
  \/ Len(g.fields) + (IF g.prefix \in { <<"+">>, <<"N">> } THEN 1 ELSE 0) > 3
  \/ \E i \in 1..Len(g.fields) : ~g.fields[i].ok
  \/ g.prefix \in { <<"+">>, <<"N">> }

\* C2: parseDMS never raises for a string, and returns NaN for every
\* malformed text: more than 3 fields, or a field that is not a number,
\* the empty field before a leading '+' or compass letter included.
C2_MalformedIsNaN ==
  (pc = "done" /\ call.op = "parseDMS" /\ call.arg.t = "str")
    => /\ ret.kind = "return"
       /\ (call.shape # Null /\ MalformedShape(call.shape)) => ret.val = NaN

-----------------------------------------------------------------------------
(* Inputs of the formatting functions *)

\* largest explicit count of decimal places
MaxDp == 2

DegreeSamples == {0, 9, 10, 89, 90, 99, 100, 179, 180, 359, 360}
MinuteSamples == {0, 59}
\* hundredths of an arcsecond, around the rounding points of 0, 1 and 2 places
SecondSamples == {0, 4, 5, 49, 50, 995, 5949, 5950, 5995}

\* angles of at most 360 degrees, and 12.3601, in units
Magnitudes ==
  { m \in { d * UnitsPerDeg + mi * UnitsPerMin + (s * UnitsPerSec) \div 100 :
              d \in DegreeSamples, mi \in MinuteSamples, s \in SecondSamples } :
      m <= 360 * UnitsPerDeg }
  \cup { 123601 * (UnitsPerDeg \div 10000) }

Angles == { Num(neg, m) : neg \in BOOLEAN, m \in Magnitudes }

\* bearings beyond one turn: -400, 725 and -360 degrees
WideBearings == { Num(TRUE, 400 * UnitsPerDeg), Num(FALSE, 725 * UnitsPerDeg),
                  Num(TRUE, 360 * UnitsPerDeg) }

\* angles beyond one turn: 999 degrees 59'59.40" and 0.01" short of 1000
\* degrees
WideAngles == { Num(neg, m) : neg \in BOOLEAN,
                m \in { 1000 * UnitsPerDeg - 60, 1000 * UnitsPerDeg - 1 } }

\* degree values that are no number
NonNumbers ==
  { NaN, Undef, Null, Str(<<"a">>),
    Obj(<<"[", "o", "b", "j", "e", "c", "t", " ", "O", "b", "j", "e", "c", "t", "]">>) }

Formats == { Undef, Str(TagD), Str(TagDM), Str(TagDMS), Str(<<"x">>) }

Places == { Undef } \cup { Num(FALSE, k) : k \in 0..MaxDp }

FormatCall(op, deg, format, dp) == [op |-> op, deg |-> deg, format |-> format, dp |-> dp]

FormatCalls ==
  { FormatCall(op, deg, f, dp) :
      op \in {"toDMS", "toLon", "toBrng"}, deg \in Angles \cup NonNumbers,
      f \in Formats, dp \in Places }
  \cup { FormatCall("toLat", deg, f, dp) :
      deg \in { a \in Angles : a.mag <= 90 * UnitsPerDeg } \cup NonNumbers,
      f \in Formats, dp \in Places }
  \cup { FormatCall("toBrng", deg, f, dp) : deg \in WideBearings, f \in Formats, dp \in Places }
  \cup { FormatCall("toDMS", deg, f, dp) :
           deg \in WideAngles, f \in Formats, dp \in { Undef, Num(FALSE, 0), Num(FALSE, 1) } }

-----------------------------------------------------------------------------
(* Calls of the formatting functions *)

ToDMS ==
  /\ pc = "call"
  /\ call.op = "toDMS"
  /\ Finish(toDMS(call.deg, call.format, call.dp, globals))

ToLat ==
  /\ pc = "call"
  /\ call.op = "toLat"
  /\ Finish(toLat(call.deg, call.format, call.dp, globals))

ToLon ==
  /\ pc = "call"
  /\ call.op = "toLon"
  /\ Finish(toLon(call.deg, call.format, call.dp, globals))

ToBrng ==
  /\ pc = "call"
  /\ call.op = "toBrng"
  /\ Finish(toBrng(call.deg, call.format, call.dp, globals))

\* the caller hands a formatted latitude or longitude back to Geo.parseDMS
ParseFormatted ==
  /\ pc = "done"
  /\ call.op \in {"toLat", "toLon"}
  /\ ret.kind = "return"
  /\ call' = [op |-> "parseDMS", arg |-> ret.val, shape |-> Null, origin |-> call]
  /\ pc' = "call"
  /\ ret' = Null
  /\ UNCHANGED globals

InitFormat ==
  /\ pc = "call"
  /\ call \in FormatCalls
  /\ ret = Null
  /\ globals = NoGlobals

NextFormat == ToDMS \/ ToLat \/ ToLon \/ ToBrng \/ ParseFormatted \/ ParseDMS

SpecFormat == InitFormat /\ [][NextFormat]_vars

-----------------------------------------------------------------------------
(* Claims about the formatting functions *)

Formatted(ops) == pc = "done" /\ call.op \in ops

\* the decimal places a call renders with in format 'dms'
PlacesOf(c) == IF c.dp = Undef THEN 0 ELSE c.dp.mag

\* a latitude of [-90, 90] or longitude of [-180, 180] was formatted as
\* 'dms' and the text parsed back
RoundTripped ==
  /\ pc = "done" /\ call.op = "parseDMS" /\ call.origin # Null
  /\ call.origin.format = Str(TagDMS)
  /\ call.origin.deg.t = "num"
  /\ call.origin.deg.mag <= (IF call.origin.op = "toLat" THEN 90 ELSE 180) * UnitsPerDeg

\* C3: parseDMS(toLat(x, 'dms', dp)) and parseDMS(toLon(x, 'dms', dp))
\* recover x, sign included, within 0.5 * 10^-dp arcsecond (dp = 0 when
\* not supplied).
C3_RoundTrip ==
  RoundTripped =>
    LET x == call.origin.deg
    IN /\ ret.kind = "return" /\ ret.val.t = "num"
       /\ 2 * Pow10(PlacesOf(call.origin)) * AbsInt(Val(ret.val) - Val(x)) <= UnitsPerSec
       /\ Val(x) < 0 => ret.val.neg
       /\ Val(x) > 0 => ~ret.val.neg

\* a negative latitude rendered with one decimal place came back rounded
C3_Witness ==
  /\ RoundTripped /\ call.origin.op = "toLat" /\ call.origin.dp = Num(FALSE, 1)
  /\ ret.kind = "return" /\ ret.val.t = "num" /\ ret.val.neg
  /\ ret.val.mag > call.origin.deg.mag

\* C7: for every real bearing, toBrng renders the bearing reduced modulo 360
\* into [0, 360).
C7_BearingReduced ==
  (Formatted({"toBrng"}) /\ call.deg.t = "num")
    => ret = toBrng(Num(FALSE, Val(call.deg) % (360 * UnitsPerDeg)),
                    call.format, call.dp, NoGlobals).ret

RECURSIVE LeadingDigits(_)
\* the digits a text starts with
LeadingDigits(s) == IF s # <<>> /\ IsDigit(Head(s))
                    THEN <<Head(s)>> \o LeadingDigits(Tail(s)) ELSE <<>>

\* C8: the text toBrng returns is the text the shared renderer gives for the
\* normalised bearing, unless the rendered degree value is exactly 360.
C8_OnlyFullTurnPatched ==
  (Formatted({"toBrng"}) /\ call.deg.t = "num")
    => LET shared == toDMS(NormaliseBearing(call.deg), call.format, call.dp, NoGlobals).ret
       IN \/ ret = shared
          \/ /\ shared.kind = "return" /\ shared.val.t = "str"
             /\ LeadingDigits(shared.val.s) = <<"3", "6", "0">>

\* position of the first c of s, or 0
PosOf(s, c) == IF \E i \in 1..Len(s) : s[i] = c
               THEN CHOOSE i \in 1..Len(s) : s[i] = c /\ \A j \in 1..(i - 1) : s[j] # c
               ELSE 0

\* the text of s between its glyphs a and b (from the start when a is "")
Between(s, a, b) == SubSeq(s, PosOf(s, a) + 1, PosOf(s, b) - 1)

\* f is a number of exactly w integer digits, with places decimals
FieldOfWidth(f, w, places) ==
  /\ IsDecimalLiteral(f)
  /\ Len(LeadingDigits(f)) = w
  /\ Len(f) = (IF places = 0 THEN w ELSE w + 1 + places)

\* f is a two-digit field whose value is below 60
Sixtieth(f, places) == FieldOfWidth(f, 2, places) /\ DigitsVal(LeadingDigits(f)) < 60

\* the format and decimal places toDMS renders a call with
RenderedAs(c) ==
  LET fmt0 == IF c.format = Undef THEN TagDMS ELSE c.format.s
  IN IF c.dp = Undef THEN DefaultDp(fmt0) ELSE [format |-> fmt0, dp |-> c.dp.mag]

\* the grammar DDD.d deg, DDD deg MM.m min, DDD deg MM min SS.s sec
FieldWidths(s, fmt, places) ==
  CASE fmt = TagD -> /\ FieldOfWidth(Between(s, "", "deg"), 3, places)
                     /\ Len(s) = PosOf(s, "deg")
    [] fmt = TagDM -> /\ FieldOfWidth(Between(s, "", "deg"), 3, 0)
                      /\ Sixtieth(Between(s, "deg", "min"), places)
                      /\ Len(s) = PosOf(s, "min")
    [] OTHER -> /\ FieldOfWidth(Between(s, "", "deg"), 3, 0)
                /\ Sixtieth(Between(s, "deg", "min"), 0)
                /\ Sixtieth(Between(s, "min", "sec"), places)
                /\ Len(s) = PosOf(s, "sec")

\* toDMS was called with a number and a format tag of its own
RenderedNumber ==
  /\ Formatted({"toDMS"}) /\ call.deg.t = "num"
  /\ RenderedAs(call).format \in {TagD, TagDM, TagDMS}

\* C14 as stated: for every magnitude below 1000 degrees toDMS renders a
\* degree field of 3 integer digits and minute and second fields of 2
\* integer digits whose values are below 60.
C14_FieldWidthsBelow1000 ==
  (RenderedNumber /\ call.deg.mag < 1000 * UnitsPerDeg)
    => /\ ret.kind = "return" /\ ret.val.t = "str"
       /\ FieldWidths(ret.val.s, RenderedAs(call).format, RenderedAs(call).dp)

\* the scale of the number toDMS rounds: degrees, minutes or seconds
RoundedScale(fmt) ==
  CASE fmt = TagD -> UnitsPerDeg [] fmt = TagDM -> UnitsPerMin [] OTHER -> UnitsPerSec

\* the value of the call, rounded as its format rounds it, is below 1000
\* degrees
RoundsBelow1000(c) ==
  LET as == RenderedAs(c)
  IN ToFixed(c.deg.mag, RoundedScale(as.format), as.dp).n
       < 1000 * (UnitsPerDeg \div RoundedScale(as.format)) * Pow10(as.dp)

\* C14: for every value that rounds, at the decimal places of the call, to
\* less than 1000 degrees, toDMS renders a degree field of 3 integer digits
\* and minute and second fields of 2 integer digits whose values are below
\* 60.
C14_FieldWidths ==
  (RenderedNumber /\ RoundsBelow1000(call))
    => /\ ret.kind = "return" /\ ret.val.t = "str"
       /\ FieldWidths(ret.val.s, RenderedAs(call).format, RenderedAs(call).dp)

\* 59.95 seconds were rounded to the whole second and carried into the
\* minutes, which carried into the degrees
C14_Witness ==
  /\ RenderedNumber /\ RoundsBelow1000(call)
  /\ RenderedAs(call) = [format |-> TagDMS, dp |-> 0]
  /\ call.deg.mag % UnitsPerDeg = 59 * UnitsPerMin + 5995
  /\ ret.kind = "return"
  /\ Between(ret.val.s, "deg", "min") = <<"0", "0">>
  /\ Between(ret.val.s, "min", "sec") = <<"0", "0">>

\* the degree value is not-a-number and no object
NaNDegrees(c) == TypeOf(c.deg) # "object" /\ IsNaN(c.deg)

\* C10: with a not-a-number degree value toDMS returns null and toLat,
\* toLon and toBrng return the marker text; none raises, and the null is
\* not the NaN by which parseDMS signals failure.
C10_NaNFormatting ==
  /\ (Formatted({"toDMS"}) /\ NaNDegrees(call)) => (ret = Returned(Null) /\ ret.val # NaN)
  /\ (Formatted({"toLat", "toLon", "toBrng"}) /\ NaNDegrees(call))
       => ret = Returned(Str(<<"dash">>))
  /\ (pc = "done" /\ call.op = "parseDMS" /\ call.arg = Str(<<"dash">>)) => ret = Returned(NaN)

\* toLat has returned the marker for a NaN latitude
C10_Witness ==
  Formatted({"toLat"}) /\ call.deg = NaN /\ ret = Returned(Str(<<"dash">>))

-----------------------------------------------------------------------------
(* Inputs and calls of toPrecisionFixed *)

\* largest requested precision
MaxPrecision == 4
\* largest decimal exponent, either way, of an input
MaxExponent == 22

Mantissas == {0, 1, 5, 123, 456, 999, 9995}

Floats == { Float(neg, m, e) : neg \in BOOLEAN, m \in Mantissas,
                               e \in (0 - MaxExponent)..MaxExponent }

FixedCalls == { [op |-> "toPrecisionFixed", x |-> x, precision |-> p] :
                  x \in Floats, p \in 1..MaxPrecision }

\* radii: the default, and spheres of 10^18 and 10^-12 km
Radii == { EarthRadius, Float(FALSE, 1, 18), Float(FALSE, 1, 0 - 12) }

Precisions == { Undef } \cup { Num(FALSE, k) : k \in 1..MaxPrecision }

DistanceCalls ==
  { [op |-> "distanceTo", this |-> LatLon(lat1, 0, r), point |-> LatLon(lat2, lon2, r),
     precision |-> k] :
      lat1 \in {0 - 90, 0, 90}, lat2 \in {0 - 90, 0, 90}, lon2 \in {0 - 270, 0, 90, 180},
      r \in Radii, k \in Precisions }
  \cup { [op |-> "rhumbDistanceTo", this |-> LatLon(lat1, 0, r),
          point |-> LatLon(lat1, lon2, r)] :
           lat1 \in {0 - 60, 0, 60}, lon2 \in {0 - 270, 0, 90, 180}, r \in Radii }
  \cup { [op |-> "rhumbDistanceTo", this |-> LatLon(lat1, 90, r),
          point |-> LatLon(lat2, 90, r)] :
           lat1 \in {0 - 60, 0, 60}, lat2 \in {0 - 60, 0, 60}, r \in Radii }

ToPrecisionFixed ==
  /\ pc = "call"
  /\ call.op = "toPrecisionFixed"
  /\ Finish(toPrecisionFixed(call.x, call.precision, globals))

DistanceTo ==
  /\ pc = "call"
  /\ call.op = "distanceTo"
  /\ Finish(distanceTo(call.this, call.point, call.precision, globals))

RhumbDistanceTo ==
  /\ pc = "call"
  /\ call.op = "rhumbDistanceTo"
  /\ Finish(rhumbDistanceTo(call.this, call.point, globals))

InitFixed ==
  /\ pc = "call"
  /\ call \in FixedCalls \cup DistanceCalls
  /\ ret = Null
  /\ globals = NoGlobals

NextFixed == ToPrecisionFixed \/ DistanceTo \/ RhumbDistanceTo

SpecFixed == InitFixed /\ [][NextFixed]_vars

-----------------------------------------------------------------------------
(* Claims about toPrecisionFixed *)

\* the text holds 'e+' or 'e-'
HasExponent(s) == \E i \in 1..(Len(s) - 1) : s[i] = "e" /\ s[i + 1] \in {"+", "-"}

\* the standard rendering of the call's number is in scientific notation
Scientific(c) == HasExponent(ToPrecision(c.x, c.precision))

\* C4: the text toPrecisionFixed returns, and so the text distanceTo and
\* rhumbDistanceTo return, never holds 'e+' or 'e-'.
C4_NoExponent ==
  (pc = "done" /\ call.op \in {"toPrecisionFixed", "distanceTo", "rhumbDistanceTo"})
    => (ret.kind = "return" /\ ret.val.t = "str" /\ ~HasExponent(ret.val.s))

\* numbers of each sign whose standard rendering has a negative or a
\* positive exponent have been rewritten
C4_Witness ==
  /\ pc = "done" /\ call.op = "toPrecisionFixed" /\ Scientific(call)
  /\ call.x.e < 0 - 9 /\ call.x.neg
  /\ ret.kind = "return" /\ Len(ret.val.s) > 10

RECURSIVE StripLeadingZeros(_)
StripLeadingZeros(ds) ==
  IF ds # <<>> /\ Head(ds) = "0" THEN StripLeadingZeros(Tail(ds)) ELSE ds

RECURSIVE TrailingZeros(_)
\* how many zeros a sequence of digits ends with
TrailingZeros(ds) ==
  IF ds # <<>> /\ ds[Len(ds)] = "0" THEN 1 + TrailingZeros(SubSeq(ds, 1, Len(ds) - 1)) ELSE 0

\* the number a rendering denotes: its sign, its digits from the first to
\* the last that is not zero, and the decimal exponent of the last of them;
\* no number when the text is not [-]digits[.digits][e(+|-)digits]
Denoted(s) ==
  LET neg == s # <<>> /\ Head(s) = "-"
      body == IF neg THEN Tail(s) ELSE s
      ePos == PosOf(body, "e")
      lit == IF ePos = 0 THEN body ELSE SubSeq(body, 1, ePos - 1)
      expText == IF ePos = 0 THEN <<>> ELSE SubSeq(body, ePos + 2, Len(body))
      expOk == \/ ePos = 0
               \/ /\ ePos + 2 <= Len(body) /\ body[ePos + 1] \in {"+", "-"}
                  /\ \A i \in 1..Len(expText) : IsDigit(expText[i])
      dot == DotAt(lit)
      ip == IF dot = 0 THEN lit ELSE SubSeq(lit, 1, dot - 1)
      fp == IF dot = 0 THEN <<>> ELSE SubSeq(lit, dot + 1, Len(lit))
  IN IF ~(IsDecimalLiteral(lit) /\ expOk) THEN [number |-> FALSE]
     ELSE
       LET ds == ip \o fp
           tz == TrailingZeros(ds)
           sig == StripLeadingZeros(SubSeq(ds, 1, Len(ds) - tz))
           exp == IF ePos = 0 THEN 0
                  ELSE IF body[ePos + 1] = "-" THEN 0 - DigitsVal(expText)
                  ELSE DigitsVal(expText)
       IN IF sig = <<>> THEN [number |-> TRUE, neg |-> FALSE, digits |-> <<>>, e |-> 0]
          ELSE [number |-> TRUE, neg |-> neg, digits |-> sig, e |-> exp - Len(fp) + tz]

\* C16: the text toPrecisionFixed returns denotes the number, of the same
\* sign and the same significant digits, that the standard rendering
\* toPrecision of the same precision denotes.
C16_SameNumber ==
  (pc = "done" /\ call.op = "toPrecisionFixed")
    => /\ ret.kind = "return" /\ ret.val.t = "str"
       /\ Denoted(ret.val.s) = Denoted(ToPrecision(call.x, call.precision))

\* the same, for the numbers that are not negative
C16_SameNumberPositive ==
  (pc = "done" /\ call.op = "toPrecisionFixed" /\ ~call.x.neg)
    => /\ ret.kind = "return" /\ ret.val.t = "str"
       /\ Denoted(ret.val.s) = Denoted(ToPrecision(call.x, call.precision))

-----------------------------------------------------------------------------
(* Inputs and calls of the geodesy functions *)

\* longitudes run over the multiples of 90 up to this many quarter turns
MaxQuarterTurns == 8
\* angular distances run up to this many steps
MaxSteps == 4

Longitudes == { 90 * k : k \in (0 - MaxQuarterTurns)..MaxQuarterTurns }

Bearings == { 0 - 90, 0, 90, 180, 270, 450 }

\* points, bearings and distances of the great-circle functions
Points == { LatLon(lat, lon, EarthRadius) : lat \in {0 - 90, 0, 90}, lon \in Longitudes }
Distances == { 90 * k : k \in 0..MaxSteps }

\* points and distances of the rhumb-line functions
RhumbPoints == { LatLon(lat, lon, EarthRadius) : lat \in {0 - 60, 0, 60}, lon \in Longitudes }
RhumbDistances == { 120 * k : k \in 0..MaxSteps }

\* pairs of one latitude or of one longitude
RhumbPairs ==
  { pq \in RhumbPoints \X RhumbPoints :
      pq[1].lat = pq[2].lat \/ ShorterWay(pq[2].lon - pq[1].lon) = 0 }

Pair(op, p, q) == [op |-> op, this |-> p, point |-> q]

Course(op, p, brng, delta) == [op |-> op, this |-> p, brng |-> brng, delta |-> delta]

\* An intersection call is kept when every test against zero and every arc
\* tangent it takes is decided by an exact zero or by a value far from zero
\* (the points on the equator, a quarter turn apart or the same point): a
\* corner angle whose sine is 0 comes from a bearing equal to the bearing
\* between the points, the angle at p1 is not 0 beside a right angle at p2,
\* and paths that meet at a pole leave p1 on bearing 0.
RoundingFree(p1, brng1, p2, brng2) ==
  \/ p1 = p2
  \/ /\ Separation(p1, p2) = 90 /\ p1.lat = 0 /\ p2.lat = 0
     /\ LET th == InitialBearings(p1, p2)
            a == CornerAngles(p1, brng1, p2, brng2)
        IN /\ Sin(a.a1) = 0 => brng1 = th.th12
           /\ Sin(a.a2) = 0 => brng2 = th.th21
           /\ Sin(a.a1) = 0 => Sin(a.a2) = 0
           /\ Sin(a.a1) * Sin(a.a2) > 0 => brng1 = 0

IntersectionCalls ==
  { c \in [op : {"intersection"}, p1 : Points, brng1 : Bearings, p2 : Points, brng2 : Bearings] :
      RoundingFree(c.p1, c.brng1, c.p2, c.brng2) }

GeoCalls ==
  { Pair(op, p, q) : op \in {"bearingTo", "finalBearingTo", "midpointTo"},
                     p \in Points, q \in Points }
  \cup { Pair(op, pq[1], pq[2]) : op \in {"rhumbBearingTo", "rhumbMidpointTo"}, pq \in RhumbPairs }
  \cup { Course("destinationPoint", p, b, d) : p \in Points, b \in Bearings, d \in Distances }
  \cup { Course("rhumbDestinationPoint", p, b, d) :
           p \in RhumbPoints, b \in Bearings, d \in RhumbDistances }
  \cup IntersectionCalls

BearingTo ==
  /\ pc = "call"
  /\ call.op = "bearingTo"
  /\ Return(bearingTo(call.this, call.point))

FinalBearingTo ==
  /\ pc = "call"
  /\ call.op = "finalBearingTo"
  /\ Return(finalBearingTo(call.this, call.point))

MidpointTo ==
  /\ pc = "call"
  /\ call.op = "midpointTo"
  /\ Return(midpointTo(call.this, call.point))

DestinationPoint ==
  /\ pc = "call"
  /\ call.op = "destinationPoint"
  /\ Return(destinationPoint(call.this, call.brng, call.delta))

RhumbBearingTo ==
  /\ pc = "call"
  /\ call.op = "rhumbBearingTo"
  /\ Return(rhumbBearingTo(call.this, call.point))

RhumbDestinationPoint ==
  /\ pc = "call"
  /\ call.op = "rhumbDestinationPoint"
  /\ Return(rhumbDestinationPoint(call.this, call.brng, call.delta))

RhumbMidpointTo ==
  /\ pc = "call"
  /\ call.op = "rhumbMidpointTo"
  /\ Return(rhumbMidpointTo(call.this, call.point))

Intersection ==
  /\ pc = "call"
  /\ call.op = "intersection"
  /\ Finish(intersection(call.p1, call.brng1, call.p2, call.brng2, globals))

InitGeo ==
  /\ pc = "call"
  /\ call \in GeoCalls
  /\ ret = Null
  /\ globals = NoGlobals

NextGeo ==
  \/ BearingTo \/ FinalBearingTo \/ MidpointTo \/ DestinationPoint
  \/ RhumbBearingTo \/ RhumbDestinationPoint \/ RhumbMidpointTo \/ Intersection

SpecGeo == InitGeo /\ [][NextGeo]_vars

-----------------------------------------------------------------------------
(* Claims about the geodesy functions *)

PointOps == {"midpointTo", "destinationPoint", "rhumbDestinationPoint", "rhumbMidpointTo"}

BearingOps == {"bearingTo", "finalBearingTo", "rhumbBearingTo"}

\* C5: whatever the input longitudes, the longitude of every returned point
\* lies in (-180, +180].
C5_LongitudeHalfOpen ==
  (pc = "done" /\ call.op \in PointOps)
    => (ret.val.lon > 0 - 180 /\ ret.val.lon <= 180)

\* C6: every bearing returned by bearingTo, finalBearingTo and
\* rhumbBearingTo lies in [0, 360).
C6_BearingRange ==
  (pc = "done" /\ call.op \in BearingOps) => (ret.val >= 0 /\ ret.val < 360)

\* a final bearing whose reverse initial bearing is 180 has wrapped to 0
C6_Witness ==
  /\ pc = "done" /\ call.op = "finalBearingTo"
  /\ call.this.lat = 0 - 90 /\ call.point.lat = 0 /\ ret.val = 0

\* C13: p1.finalBearingTo(p2) is p2.bearingTo(p1) plus 180 degrees, modulo
\* 360.
C13_FinalIsReversePlus180 ==
  (pc = "done" /\ call.op = "finalBearingTo")
    => ret = Returned((bearingTo(call.point, call.this) + 180) % 360)

\* the reverse initial bearing was 180 (and the final bearing 0), and in
\* another call 0 (and the final bearing 180)
C13_Witness ==
  /\ pc = "done" /\ call.op = "finalBearingTo"
  /\ bearingTo(call.point, call.this) = 180 /\ ret = Returned(0)
  /\ \E q \in Points : bearingTo(q, call.this) = 0 /\ finalBearingTo(call.this, q) = 180

\* C17: the point rhumbDestinationPoint returns, from an origin of latitude
\* in [-90, 90], along any bearing and over any distance that is not
\* negative, has its latitude in [-90, 90].
C17_LatitudeInRange ==
  (pc = "done" /\ call.op = "rhumbDestinationPoint"
     /\ AbsInt(call.this.lat) <= 90 /\ call.delta >= 0)
    => /\ ret.kind = "return"
       /\ ret.val.lat >= 0 - 90 /\ ret.val.lat <= 90

\* the computed corner angles of an intersection call
AnglesOf(c) == CornerAngles(c.p1, c.brng1, c.p2, c.brng2)

\* an angle brought into [-180, 180)
Reduced(a) == ((a + 180) % 360) - 180

\* a returned point: a latitude and a longitude
IsPoint(r) == r.kind = "return" /\ r.val # Null /\ r.val.lat \in Int /\ r.val.lon \in Int

-----------------------------------------------------------------------------
(* Claims about the type guards *)

\* C9: given an object, parseDMS and toDMS raise the TypeError of their
\* guard, and neither ever raises anything else.
C9_OnlyGuardRaises ==
  /\ (pc = "done" /\ call.op = "parseDMS" /\ TypeOf(call.arg) = "object")
       => ret = Raised("TypeError", "guard")
  /\ (pc = "done" /\ call.op = "toDMS" /\ TypeOf(call.deg) = "object")
       => ret = Raised("TypeError", "guard")
  /\ (pc = "done" /\ call.op \in {"parseDMS", "toDMS"} /\ ret.kind = "throw")
       => ret = Raised("TypeError", "guard")

-----------------------------------------------------------------------------
(* Sessions: calls made one after another in one page, each finding the   *)
(* globals the calls before it left                                       *)

\* 0 and -45.5 degrees
SessionAngles == { Num(FALSE, 0), Num(TRUE, 45 * UnitsPerDeg + 30 * UnitsPerMin) }

SessionFormats == { Undef, Str(TagD), Str(<<"x">>) }

SessionPlaces == { Undef, Num(FALSE, 0) }

\* 1.23e21, 5e25 and 4.56e-10
SessionFloats == { Float(FALSE, 123, 19), Float(FALSE, 5, 25), Float(FALSE, 456, 0 - 12) }

\* the origin on the default sphere and on one of radius 1e18
SessionOrigins == { LatLon(0, 0, r) : r \in {EarthRadius, Float(FALSE, 1, 18)} }

\* points of the equator on the default sphere
SessionPoints == { LatLon(0, lon, EarthRadius) : lon \in {0 - 90, 0, 90} }

SessionCalls ==
  { FormatCall(op, deg, f, dp) :
      op \in {"toDMS", "toLat", "toLon", "toBrng"}, deg \in SessionAngles,
      f \in SessionFormats, dp \in SessionPlaces }
  \cup { [op |-> "parseDMS", arg |-> a, shape |-> Null, origin |-> Null] :
           a \in { Str(<<"4", "5", " ", "3", "0", "S">>), Str(<<"x">>) } }
  \cup { [op |-> "toPrecisionFixed", x |-> x, precision |-> p] :
           x \in SessionFloats, p \in {1, 3} }
  \cup { [op |-> "distanceTo", this |-> p, point |-> LatLon(0, 90, EarthRadius),
          precision |-> Undef] : p \in SessionOrigins }
  \cup { [op |-> "rhumbDistanceTo", this |-> p, point |-> LatLon(0, 90, EarthRadius)] :
           p \in SessionOrigins }
  \cup { c \in [op : {"intersection"}, p1 : {LatLon(0, 0, EarthRadius)}, brng1 : {0},
                p2 : SessionPoints, brng2 : {0, 90, 270}] :
           RoundingFree(c.p1, c.brng1, c.p2, c.brng2) }

\* the next call of the session
NextCall ==
  /\ pc = "done"
  /\ call' \in SessionCalls
  /\ pc' = "call"
  /\ ret' = Null
  /\ UNCHANGED globals

InitSession ==
  /\ pc = "call"
  /\ call \in SessionCalls
  /\ ret = Null
  /\ globals = NoGlobals

NextSession ==
  \/ NextCall
  \/ ToDMS \/ ToLat \/ ToLon \/ ToBrng \/ ParseDMS
  \/ ToPrecisionFixed \/ DistanceTo \/ RhumbDistanceTo \/ Intersection

SpecSession == InitSession /\ [][NextSession]_vars

-----------------------------------------------------------------------------
(* Claims about sessions *)

\* C11: after any sequence of calls every global variable has the value it
\* had before the sequence: no call assigns a global.
C11_GlobalsUntouched == globals = NoGlobals

\* the format tag of a call, 'dms' standing for a tag toDMS does not know
KnownFormat(c) ==
  IF c.format # Undef /\ c.format.s \notin {TagD, TagDM, TagDMS} THEN Str(TagDMS) ELSE c.format

\* C15: whatever calls ran before it, a call of toDMS returns what its
\* arguments alone determine, and a format tag other than d, dm and dms is
\* rendered as 'dms' whether or not the decimal places are given.
C15_FunctionOfArguments ==
  (pc = "done" /\ call.op = "toDMS")
    => ret = toDMS(call.deg, KnownFormat(call), call.dp, NoGlobals).ret

-----------------------------------------------------------------------------
(* Every call of every function, one call to a behaviour *)

Init == InitParse \/ InitFormat \/ InitFixed \/ InitGeo \/ InitSession

Next == NextFormat \/ NextGeo \/ NextSession

Spec == Init /\ [][Next]_vars

=============================================================================
